---- MODULE Spec2Model ----
(***************************************************************************)
(* Model of basic.py: read standard input line by line, lowercase and      *)
(* split each line on whitespace, count the words in a dict, sort the      *)
(* items by count descending and print them.                               *)
(*                                                                         *)
(* Text is a sequence of one-character strings.  The dict is a sequence of *)
(* [word, count] records in insertion order, which is the order a Python 3 *)
(* dict iterates in.  The program is run twice on the same input so that   *)
(* statements about two runs can be checked.                               *)
(***************************************************************************)
EXTENDS Integers, Sequences, FiniteSets

\* Bound on the number of characters of the input stream.
MaxInputLen == 5

\* Bound on the number of characters of the input stream in the
\* specification with fairness.
MaxLiveLen == 4

\* The characters the input is drawn from: letters in both cases, a blank
\* and the line terminator.
Alphabet == {"a", "A", "b", " ", "\n"}

VARIABLES input, stdin, words, counts, pairs, out, pc, exitCode, run, prevOut

vars == <<input, stdin, words, counts, pairs, out, pc, exitCode, run, prevOut>>

----------------------------------------------------------------------------
\* Pure functions of the program.

IsSpaceBlankOnly(c) == c = " "

\* str.split() with no argument separates on any whitespace character.
IsSpace(c) == c \in {" ", "\n"}

LowerCharIdentity(c) == c

\* str.lower() on one character.
LowerChar(c) == CASE c = "A" -> "a"
                  [] c = "B" -> "b"
                  [] OTHER -> c

\* str.lower() on a string.
Lower(s) == [i \in 1..Len(s) |-> LowerChar(s[i])]

\* Index of the last character of the run of non-whitespace starting at i.
RECURSIVE RunEnd(_, _)
RunEnd(s, i) == IF i = Len(s) \/ IsSpace(s[i + 1]) THEN i ELSE RunEnd(s, i + 1)

\* str.split(): the maximal runs of non-whitespace from position i on,
\* empty fragments discarded.
RECURSIVE SplitFrom(_, _)
SplitFrom(s, i) ==
    IF i > Len(s) THEN <<>>
    ELSE IF IsSpace(s[i]) THEN SplitFrom(s, i + 1)
    ELSE LET j == RunEnd(s, i)
         IN  <<SubSeq(s, i, j)>> \o SplitFrom(s, j + 1)

Split(s) == SplitFrom(s, 1)

\* Length of the next line of a non-empty stream: up to and including the
\* first line terminator, or the whole rest when there is none.
RECURSIVE LineEnd(_, _)
LineEnd(s, i) == IF i = Len(s) \/ s[i] = "\n" THEN i ELSE LineEnd(s, i + 1)

SeededTable == <<[word |-> <<>>, count |-> 0]>>

\* counts = {}
EmptyTable == <<>>

HasKey(d, w) == \E i \in 1..Len(d) : d[i].word = w

\* dict.get(w, default)
Get(d, w, default) ==
    IF HasKey(d, w) THEN d[CHOOSE i \in 1..Len(d) : d[i].word = w].count
    ELSE default

\* d[w] = v : an existing key keeps its position, a new key goes last.
Put(d, w, v) ==
    IF HasKey(d, w)
    THEN [i \in 1..Len(d) |-> IF d[i].word = w THEN [word |-> w, count |-> v] ELSE d[i]]
    ELSE Append(d, [word |-> w, count |-> v])

IncrementNoAdd(d, w) == Put(d, w, 1)

\* counts[word] = counts.get(word, 0) + 1
Increment(d, w) == Put(d, w, Get(d, w, 0) + 1)

RemoveAt(s, i) == SubSeq(s, 1, i - 1) \o SubSeq(s, i + 1, Len(s))

MaxCount(items) == CHOOSE m \in {items[i].count : i \in 1..Len(items)} :
                       \A i \in 1..Len(items) : items[i].count <= m

MinCount(items) == CHOOSE m \in {items[i].count : i \in 1..Len(items)} :
                       \A i \in 1..Len(items) : items[i].count >= m

FirstWith(items, c) == CHOOSE i \in 1..Len(items) :
                           /\ items[i].count = c
                           /\ \A k \in 1..(i - 1) : items[k].count # c

LastWith(items, c) == CHOOSE i \in 1..Len(items) :
                          /\ items[i].count = c
                          /\ \A k \in (i + 1)..Len(items) : items[k].count # c

\* Ascending order of count.
RECURSIVE SortedAscending(_)
SortedAscending(items) ==
    IF items = <<>> THEN <<>>
    ELSE LET i == FirstWith(items, MinCount(items))
         IN  <<items[i]>> \o SortedAscending(RemoveAt(items, i))

\* Descending order of count with the order of equal counts reversed, as
\* reversing an ascending stable sort gives.
RECURSIVE SortedReversedTies(_)
SortedReversedTies(items) ==
    IF items = <<>> THEN <<>>
    ELSE LET i == LastWith(items, MaxCount(items))
         IN  <<items[i]>> \o SortedReversedTies(RemoveAt(items, i))

\* sorted(items, key=lambda kv: kv[1], reverse=True): descending order of
\* count; the sort is stable, also with reverse=True, so items of equal
\* count keep their relative order.
RECURSIVE Sorted(_)
Sorted(items) ==
    IF items = <<>> THEN <<>>
    ELSE LET i == FirstWith(items, MaxCount(items))
         IN  <<items[i]>> \o Sorted(RemoveAt(items, i))

----------------------------------------------------------------------------
\* The state machine.

Texts == UNION {[1..n -> Alphabet] : n \in 0..MaxInputLen}

Init ==
    /\ input \in Texts
    /\ stdin = input
    /\ words = <<>>
    /\ counts = EmptyTable
    /\ pairs = <<>>
    /\ out = <<>>
    /\ pc = "read"
    /\ exitCode = "none"
    /\ run = 1
    /\ prevOut = <<>>

\* for line in sys.stdin: words = line.lower().split()
ReadLine ==
    /\ pc = "read"
    /\ stdin # <<>>
    /\ LET n == LineEnd(stdin, 1)
           line == SubSeq(stdin, 1, n)
       IN  /\ stdin' = SubSeq(stdin, n + 1, Len(stdin))
           /\ words' = Split(Lower(line))
    /\ pc' = IF words' = <<>> THEN "read" ELSE "count"
    /\ UNCHANGED <<input, counts, pairs, out, exitCode, run, prevOut>>

CountWordStreaming ==
    /\ pc = "count"
    /\ counts' = Increment(counts, Head(words))
    /\ words' = Tail(words)
    /\ out' = Append(out, [word |-> Head(words), count |-> Get(counts', Head(words), 0)])
    /\ pc' = IF words' = <<>> THEN "read" ELSE "count"
    /\ UNCHANGED <<input, stdin, pairs, exitCode, run, prevOut>>

\* for word in words: counts[word] = counts.get(word, 0) + 1
CountWord ==
    /\ pc = "count"
    /\ counts' = Increment(counts, Head(words))
    /\ words' = Tail(words)
    /\ pc' = IF words' = <<>> THEN "read" ELSE "count"
    /\ UNCHANGED <<input, stdin, pairs, out, exitCode, run, prevOut>>

\* The orders in which a table that does not keep insertion order could
\* hand out its items.
Permutations(d) ==
    {[i \in 1..Len(d) |-> d[p[i]]] :
        p \in {q \in [1..Len(d) -> 1..Len(d)] : \A i, j \in 1..Len(d) : q[i] = q[j] => i = j}}

SortPairsHashOrder ==
    /\ pc = "read"
    /\ stdin = <<>>
    /\ \E items \in Permutations(counts) : pairs' = Sorted(items)
    /\ pc' = "emit"
    /\ UNCHANGED <<input, stdin, words, counts, out, exitCode, run, prevOut>>

\* End of the stream ends the loop over the lines;
\* pairs = sorted(counts.items(), key=lambda kv: kv[1], reverse=True)
SortPairs ==
    /\ pc = "read"
    /\ stdin = <<>>
    /\ pairs' = Sorted(counts)
    /\ pc' = "emit"
    /\ UNCHANGED <<input, stdin, words, counts, out, exitCode, run, prevOut>>

\* for word, count in pairs: print(word, count)
Emit ==
    /\ pc = "emit"
    /\ Len(out) < Len(pairs)
    /\ out' = Append(out, pairs[Len(out) + 1])
    /\ UNCHANGED <<input, stdin, words, counts, pairs, pc, exitCode, run, prevOut>>

ExitEarly ==
    /\ pc = "emit"
    /\ Len(out) + 1 >= Len(pairs)
    /\ pc' = "done"
    /\ exitCode' = 0
    /\ UNCHANGED <<input, stdin, words, counts, pairs, out, run, prevOut>>

\* The loop over the pairs is over and the script ends: exit status 0.
Exit ==
    /\ pc = "emit"
    /\ Len(out) = Len(pairs)
    /\ pc' = "done"
    /\ exitCode' = 0
    /\ UNCHANGED <<input, stdin, words, counts, pairs, out, run, prevOut>>

RerunKeepTable ==
    /\ pc = "done"
    /\ run = 1
    /\ run' = 2
    /\ prevOut' = out
    /\ stdin' = input
    /\ words' = <<>>
    /\ pairs' = <<>>
    /\ out' = <<>>
    /\ pc' = "read"
    /\ exitCode' = "none"
    /\ UNCHANGED <<input, counts>>

\* The program is started a second time on the same input: a new process,
\* whose table is created empty again; the output of the first run is kept
\* for comparison.
Rerun ==
    /\ pc = "done"
    /\ run = 1
    /\ run' = 2
    /\ prevOut' = out
    /\ stdin' = input
    /\ words' = <<>>
    /\ counts' = EmptyTable
    /\ pairs' = <<>>
    /\ out' = <<>>
    /\ pc' = "read"
    /\ exitCode' = "none"
    /\ UNCHANGED input

\* The same start, on the shorter inputs.
LiveInit ==
    /\ Init
    /\ Len(input) <= MaxLiveLen

Next == ReadLine \/ CountWord \/ SortPairs \/ Emit \/ Exit \/ Rerun

Spec == Init /\ [][Next]_vars

\* The interpreter keeps executing the script: a step that can be taken is
\* taken.
FairSpec == LiveInit /\ [][Next]_vars /\ WF_vars(Next)

----------------------------------------------------------------------------
\* What the input holds, stated on the whole input text and independently
\* of how the program reads it.

Blank(c) == c = " " \/ c = "\n"

\* A token is a maximal run of non-whitespace characters: the pairs <<i, j>>
\* of its first and last position.
Tokens(text) ==
    {t \in (1..Len(text)) \X (1..Len(text)) :
        /\ t[1] <= t[2]
        /\ \A k \in t[1]..t[2] : ~Blank(text[k])
        /\ t[1] = 1 \/ Blank(text[t[1] - 1])
        /\ t[2] = Len(text) \/ Blank(text[t[2] + 1])}

\* Character c is the letter d written in either case.
Folds(c, d) == c = d \/ <<c, d>> \in {<<"A", "a">>, <<"B", "b">>}

\* Word w is a lowercase word and token t of text spells it, up to case.
Spells(text, t, w) ==
    /\ Len(w) = t[2] - t[1] + 1
    /\ \A k \in 1..Len(w) : w[k] \in {"a", "b"} /\ Folds(text[t[1] + k - 1], w[k])

Occurrences(text, w) == Cardinality({t \in Tokens(text) : Spells(text, t, w)})

\* Position of the first token of text that spells w.
FirstOccurrence(text, w) ==
    CHOOSE i \in 1..Len(text) :
        /\ \E t \in Tokens(text) : t[1] = i /\ Spells(text, t, w)
        /\ \A t \in Tokens(text) : Spells(text, t, w) => t[1] >= i

EmittedWords == {out[i].word : i \in 1..Len(out)}

RECURSIVE SumCounts(_)
SumCounts(lines) == IF lines = <<>> THEN 0 ELSE Head(lines).count + SumCounts(Tail(lines))

\* The number of lines of a sequence that are equal to line e.
Copies(lines, e) == Cardinality({i \in 1..Len(lines) : lines[i] = e})

Finished == pc = "done"

\* Two emitted lines with the same count and different words.
HasTie(lines) == \E i, j \in 1..Len(lines) : i < j /\ lines[i].count = lines[j].count

----------------------------------------------------------------------------
\* C1: when the program has finished, the count emitted next to each word
\* is the number of tokens of the whole input that spell the word up to
\* letter case.
C1_CountIsOccurrences ==
    Finished => \A i \in 1..Len(out) : out[i].count = Occurrences(input, out[i].word)

\* A finished run in which a word written in both cases was counted twice
\* over two lines.
C1_Witness ==
    /\ Finished
    /\ \E i \in 1..Len(out) : out[i].word = <<"a">> /\ out[i].count = 2
    /\ \E t, u \in Tokens(input) : /\ input[t[1]] = "A" /\ input[u[1]] = "a"
                                   /\ \E k \in t[2]..u[1] : input[k] = "\n"

\* C2: the sum of the emitted counts is the number of tokens of the input.
C2_SumIsTokenCount ==
    Finished => SumCounts(out) = Cardinality(Tokens(input))

\* A finished run over three tokens, one word repeated.
C2_Witness ==
    /\ Finished
    /\ Cardinality(Tokens(input)) = 3
    /\ Len(out) = 2

\* C3: the emitted words are exactly the distinct lowercase tokens of the
\* input, one line for each.
C3_WordsAreDistinctTokens ==
    Finished =>
        /\ \A t \in Tokens(input) : \E w \in EmittedWords : Spells(input, t, w)
        /\ \A w \in EmittedWords : \E t \in Tokens(input) : Spells(input, t, w)
        /\ \A i, j \in 1..Len(out) : out[i].word = out[j].word => i = j

\* A finished run with a repeated word, a second word and a line break.
C3_Witness ==
    /\ Finished
    /\ Len(out) = 2
    /\ Cardinality(Tokens(input)) > 2
    /\ \E k \in 1..Len(input) : input[k] = "\n"

\* C4: at every point of the emission, each emitted line has a count at
\* least that of the line after it.
C4_DescendingCounts ==
    \A i \in 1..(Len(out) - 1) : out[i].count >= out[i + 1].count

\* The word seen second has the larger count and is emitted first.
C4_Witness ==
    /\ Len(out) = 2
    /\ out[1].count > out[2].count
    /\ FirstOccurrence(input, out[2].word) < FirstOccurrence(input, out[1].word)

\* C5: when the input holds no lines, no output line is written.
C5_EmptyInputEmptyOutput ==
    input = <<>> => out = <<>>

\* A finished run on the empty input.
C5_Witness ==
    Finished /\ input = <<>> /\ exitCode = 0

C7_TieOrderMayDiffer ==
    (run = 2 /\ pc = "read" /\ stdin = <<>> /\ HasTie(counts)) =>
        ENABLED (SortPairs /\ pairs' # prevOut)

\* C7, amended: two runs on the same input emit words of equal count in
\* the same relative order.
C7_TieOrderRepeats ==
    (run = 2 /\ Finished) =>
        \A i, j \in 1..Len(out) :
            (i < j /\ out[i].count = out[j].count) =>
                \E k, l \in 1..Len(prevOut) :
                    k < l /\ prevOut[k] = out[i] /\ prevOut[l] = out[j]

\* The second run has finished and emitted words of equal count.
C7_Witness ==
    run = 2 /\ Finished /\ HasTie(out)

\* C8: a line is emitted only after the input was read to its end; a run
\* that has emitted a line changes neither the table nor the stream; the
\* run goes from reading and counting to emitting to its end, never back.
C8_NoStreaming ==
    [][/\ out' # <<>> => (stdin' = <<>> /\ pc' \in {"emit", "done"})
       /\ (out # <<>> /\ run' = run) => (counts' = counts /\ stdin' = stdin)
       /\ run' = run =>
            <<pc, pc'>> \in {<<"read", "read">>, <<"read", "count">>, <<"count", "count">>,
                             <<"count", "read">>, <<"read", "emit">>, <<"emit", "emit">>,
                             <<"emit", "done">>}]_vars

\* Emission is under way after several lines were read and counted.
C8_Witness ==
    /\ pc = "emit"
    /\ Len(out) = 1
    /\ Len(pairs) = 2
    /\ \E k \in 1..(Len(input) - 1) : input[k] = "\n"

\* C9: every run ends with exit status 0 and all of its lines emitted, and
\* no run has ended while input was left on the stream.
C9_Terminates ==
    /\ \A r \in 1..2 :
         <>(run = r /\ Finished /\ exitCode = 0 /\ out = pairs /\ Len(out) = Len(counts))
    /\ [](Finished => stdin = <<>>)

\* The second run has ended with status 0 after emitting two lines.
C9_Witness ==
    run = 2 /\ Finished /\ exitCode = 0 /\ Len(out) = 2 /\ out = pairs /\ stdin = <<>>

\* C10: words of equal count are emitted in the order of their first
\* occurrence in the input.
C10_TiesInFirstOccurrenceOrder ==
    \A i, j \in 1..Len(out) :
        (i < j /\ out[i].count = out[j].count) =>
            FirstOccurrence(input, out[i].word) < FirstOccurrence(input, out[j].word)

\* Two words of equal count, emitted against the alphabet's order.
C10_Witness ==
    /\ Len(out) = 2
    /\ out[1].count = out[2].count
    /\ out[1].word = <<"b">>
    /\ out[2].word = <<"a">>

====
